---- MODULE Spec2Model ----
(***************************************************************************)
(* Province matching for Vietnamese postal addresses.                      *)
(*                                                                         *)
(* The model covers the ProvinceComparator of src/src/province_comparator  *)
(* (index construction, rightmost-match extraction, merge-aware            *)
(* comparison, compare_address_pair) and the ProvinceExtractor of          *)
(* src/gradio_app.py (normalising, best-specificity extraction).           *)
(*                                                                         *)
(* A Python str is a sequence of characters, one string per code point; an *)
(* accented letter is one code point, written in Telex ("af" is a-grave,   *)
(* "AF" its capital, "of" o-grave, "ir" i-hook, "dd" d-stroke, "cg" the    *)
(* combining grave accent).  None and a str are kept apart by an option    *)
(* record, since the code tests truthiness.                                *)
(* A Python dict is a sequence of [key, val] records in insertion order:   *)
(* the order decides ties in both rankings, and an overwrite keeps the     *)
(* key's original place.                                                   *)
(***************************************************************************)
EXTENDS Integers, Sequences, FiniteSets, TLC

VARIABLES pc, ground_truth, variant_to_official, merged_provinces, error, call

vars == <<pc, ground_truth, variant_to_official, merged_provinces, error, call>>

(***************************************************************************)
(* Characters and strings                                                  *)
(***************************************************************************)
AsciiUpper == <<"A","B","C","D","E","F","G","H","I","J","K","L","M",
                "N","O","P","Q","R","S","T","U","V","W","X","Y","Z">>
AsciiLower == <<"a","b","c","d","e","f","g","h","i","j","k","l","m",
                "n","o","p","q","r","s","t","u","v","w","x","y","z">>

IsAsciiUpper(c) == \E i \in DOMAIN AsciiUpper : AsciiUpper[i] = c
IsAsciiLower(c) == \E i \in DOMAIN AsciiLower : AsciiLower[i] = c

\* str.lower() on one character: ASCII letters and the accented capitals
\* that occur in the modelled texts; every other character is caseless or
\* already lower case.
LowerChar(c) ==
    IF IsAsciiUpper(c)
    THEN AsciiLower[CHOOSE i \in DOMAIN AsciiUpper : AsciiUpper[i] = c]
    ELSE CASE c = "AF" -> "af"
           [] c = "OF" -> "of"
           [] c = "DD" -> "dd"
           [] OTHER -> c

\* The characters of the modelled texts.
Alphabet ==
    {AsciiUpper[i] : i \in DOMAIN AsciiUpper} \cup {AsciiLower[i] : i \in DOMAIN AsciiLower}
    \cup {"0","1","2","3","4","5","6","7","8","9"}
    \cup {" ", "\t", "\n", ",", ";", ".", "-", "/"}
    \cup {"AF", "af", "OF", "of", "DD", "dd", "as", "ix", "ir", "eej", "ees", "oos",
          "awx", "cg"}

\* LowerChar tabulated over the alphabet.
LowerTable == [c \in Alphabet |-> LowerChar(c)]

\* str.lower()
Lower(s) == [i \in DOMAIN s |-> LowerTable[s[i]]]

\* The other case of an ASCII letter; any other character is left alone.
SwapAsciiCase(c) ==
    IF IsAsciiUpper(c)
    THEN AsciiLower[CHOOSE i \in DOMAIN AsciiUpper : AsciiUpper[i] = c]
    ELSE IF IsAsciiLower(c)
    THEN AsciiUpper[CHOOSE i \in DOMAIN AsciiLower : AsciiLower[i] = c]
    ELSE c

\* v occurs in a starting at the 0-based offset p.
OccursAt(v, a, p) ==
    /\ p >= 0
    /\ p + Len(v) <= Len(a)
    /\ \A k \in 1..Len(v) : a[p + k] = v[k]

\* `v in a`
Contains(v, a) == \E p \in 0..(Len(a) - Len(v)) : OccursAt(v, a, p)

Min(S) == CHOOSE x \in S : \A y \in S : x <= y

\* a.find(v): the first offset of v in a, or -1.
Find(v, a) ==
    LET hits == {p \in 0..(Len(a) - Len(v)) : OccursAt(v, a, p)}
    IN  IF hits = {} THEN -1 ELSE Min(hits)

(***************************************************************************)
(* Optional strings: None, or a str                                        *)
(***************************************************************************)
None == [none |-> TRUE, str |-> <<>>]
Some(s) == [none |-> FALSE, str |-> s]

\* Python truthiness of an optional str: `not x` holds of None and of "".
Falsy(x) == x.none \/ x.str = <<>>

(***************************************************************************)
(* Insertion-ordered dict                                                  *)
(***************************************************************************)
DictHas(d, k) == \E i \in DOMAIN d : d[i].key = k

DictGet(d, k) == d[CHOOSE i \in DOMAIN d : d[i].key = k].val

\* d.get(k, default)
DictGetOr(d, k, default) == IF DictHas(d, k) THEN DictGet(d, k) ELSE default

\* Mutant of DictPut: the first writer of a key wins (dict.setdefault).
DictPutKeepFirst(d, k, v) ==
    IF DictHas(d, k) THEN d ELSE Append(d, [key |-> k, val |-> v])

\* d[k] = v: an existing key keeps its place, a new key goes last.
DictPut(d, k, v) ==
    IF DictHas(d, k)
    THEN [i \in DOMAIN d |-> IF d[i].key = k THEN [key |-> k, val |-> v] ELSE d[i]]
    ELSE Append(d, [key |-> k, val |-> v])

DictKeys(d) == {d[i].key : i \in DOMAIN d}

(***************************************************************************)
(* Texts of the modelled ground truths and addresses                       *)
(***************************************************************************)
VinhLong    == <<"V","ix","n","h"," ","L","o","n","g">>
NgheAn      == <<"N","g","h","eej"," ","A","n">>
TraVinhProv == <<"T","r","af"," ","V","i","n","h">>
KhanhHoa    == <<"K","h","as","n","h"," ","H","of","a">>
HueCity     == <<"H","u","ees">>
DaNang      == <<"DD","af"," ","N","awx","n","g">>
TraVinh     == <<"T","r","a"," ","V","i","n","h">>
TinhTraVinh == <<"T","ir","n","h"," ","T","r","af"," ","V","i","n","h">>
Vinh        == <<"V","i","n","h">>
NA          == <<"N","A">>
KH          == <<"K","H">>
TV          == <<"T","V">>
KhanhHoaOld == <<"K","h","as","n","h"," ","H","o","af">>
HueAscii    == <<"H","u","e">>

\* The legacy-designator tokens of the merge pass.
Tinh     == <<"T","ir","n","h">>
ThanhPho == <<"T","h","af","n","h"," ","p","h","oos">>
TP       == <<"T","P">>
Designators == <<Tinh, ThanhPho, TP>>

(***************************************************************************)
(* Ground truth: what json.load returns.  An entry is one (key, value)     *)
(* pair of the top-level mapping, in file order.  kind is the JSON type of *)
(* the value: "list" (variants: the strings of the list), "str" (text: a   *)
(* bare string) or "num" (a number).                                       *)
(***************************************************************************)
ListEntry(official, variants) ==
    [official |-> official, kind |-> "list", variants |-> variants, text |-> <<>>]
StrEntry(official, text) ==
    [official |-> official, kind |-> "str", variants |-> <<>>, text |-> text]
NumEntry(official) ==
    [official |-> official, kind |-> "num", variants |-> <<>>, text |-> <<>>]

\* `for variant in variants`: a list yields its strings, a bare string its
\* characters (each a one-character string); a number is not iterable.
Iterable(e) == e.kind # "num"
Items(e) ==
    IF e.kind = "list" THEN e.variants
    ELSE [i \in DOMAIN e.text |-> <<e.text[i]>>]

(***************************************************************************)
(* ProvinceComparator.__init__: the variant index (lines 25-36)            *)
(***************************************************************************)
\* d[name] = official; d[name.lower()] = official
InsertName(d, name, official) ==
    DictPut(DictPut(d, name, official), Lower(name), official)

RECURSIVE InsertVariants(_, _, _, _)
InsertVariants(d, items, official, i) ==
    IF i > Len(items) THEN d
    ELSE InsertVariants(InsertName(d, items[i], official), items, official, i + 1)

RECURSIVE BuildIndex(_, _, _)
BuildIndex(d, gt, n) ==
    IF n > Len(gt) THEN d
    ELSE BuildIndex(
            InsertVariants(InsertName(d, gt[n].official, gt[n].official),
                           Items(gt[n]), gt[n].official, 1),
            gt, n + 1)

(***************************************************************************)
(* ProvinceComparator.__init__: the merge relation (lines 38-47)           *)
(***************************************************************************)
\* any(p in old_prov for p in [Tinh, ThanhPho, TP])
HasDesignator(old_prov) ==
    \E j \in DOMAIN Designators : Contains(Designators[j], old_prov)

\* Mutant of RecordMerge: the legacy name is recorded literally, without
\* the lookup in the index.
RecordMergeLiteral(m, index, old_prov, new_province) ==
    IF HasDesignator(old_prov)
    THEN DictPut(m, old_prov, new_province)
    ELSE m

\* old_official = variant_to_official.get(old_prov, old_prov)
\* merged_provinces[old_official] = new_province
RecordMerge(m, index, old_prov, new_province) ==
    IF HasDesignator(old_prov)
    THEN DictPut(m, DictGetOr(index, old_prov, old_prov), new_province)
    ELSE m

RECURSIVE MergeVariants(_, _, _, _, _)
MergeVariants(m, index, items, new_province, i) ==
    IF i > Len(items) THEN m
    ELSE MergeVariants(RecordMerge(m, index, items[i], new_province),
                       index, items, new_province, i + 1)

RECURSIVE BuildMerged(_, _, _, _)
BuildMerged(m, index, gt, n) ==
    IF n > Len(gt) THEN m
    ELSE BuildMerged(MergeVariants(m, index, Items(gt[n]), gt[n].official, 1),
                     index, gt, n + 1)

\* The first loop raises at the first value that cannot be iterated.
ConstructionRaises(gt) == \E n \in DOMAIN gt : ~Iterable(gt[n])

(***************************************************************************)
(* ProvinceComparator.extract_province: rightmost-match (lines 52-115)     *)
(***************************************************************************)
\* The character class [\s,;.\-/] of the boundary pattern.
Delimiters == {" ", "\t", "\n", ",", ";", ".", "-", "/"}
IsDelim(c) == c \in Delimiters

\* (?:[\s,;.\-/]|$) at the 0-based offset e of a.
TrailingBoundary(a, e) == e = Len(a) \/ (e < Len(a) /\ IsDelim(a[e + 1]))

\* The pattern (?:^|[\s,;.\-/])(v)(?:[\s,;.\-/]|$) matches a with its
\* group 0 starting at the 0-based offset s: either ^ at offset 0 with v
\* right there, or a delimiter at s with v right after it.
BoundaryMatchAt(v, a, s) ==
    \/ /\ s = 0
       /\ OccursAt(v, a, 0)
       /\ TrailingBoundary(a, Len(v))
    \/ /\ s < Len(a)
       /\ IsDelim(a[s + 1])
       /\ OccursAt(v, a, s + 1)
       /\ TrailingBoundary(a, s + 1 + Len(v))

\* re.search(pattern, a).start(): the leftmost match's start, or -1 for no
\* match.  start() is the start of the whole match, the leading delimiter
\* included.
BoundarySearch(v, a) ==
    LET hits == {s \in 0..Len(a) : BoundaryMatchAt(v, a, s)}
    IN  IF hits = {} THEN -1 ELSE Min(hits)

\* len(variant_str) >= 4 of the substring probe.
SubstringMinLen == 4

NoMatch == [found |-> FALSE, position |-> 0, is_word_boundary |-> FALSE]

\* Mutant of ProbeVariant: the substring probe without its length guard.
ProbeVariantNoGuard(variant, variant_lower, address_lower) ==
    LET b == BoundarySearch(variant_lower, address_lower)
    IN  IF b >= 0
        THEN [found |-> TRUE, position |-> b, is_word_boundary |-> TRUE]
        ELSE IF Contains(variant_lower, address_lower)
        THEN [found |-> TRUE, position |-> Find(variant_lower, address_lower),
              is_word_boundary |-> FALSE]
        ELSE NoMatch

\* Mutant of ProbeVariant: the boundary probe alone.
ProbeVariantBoundaryOnly(variant, variant_lower, address_lower) ==
    LET b == BoundarySearch(variant_lower, address_lower)
    IN  IF b >= 0
        THEN [found |-> TRUE, position |-> b, is_word_boundary |-> TRUE]
        ELSE NoMatch

\* Lines 74-95: the boundary probe, else the substring probe for a variant
\* of at least 4 characters.  variant is the raw key, variant_lower and
\* address_lower the texts that are searched.
ProbeVariant(variant, variant_lower, address_lower) ==
    LET b == BoundarySearch(variant_lower, address_lower)
    IN  IF b >= 0
        THEN [found |-> TRUE, position |-> b, is_word_boundary |-> TRUE]
        ELSE IF Len(variant) >= SubstringMinLen /\ Contains(variant_lower, address_lower)
        THEN [found |-> TRUE, position |-> Find(variant_lower, address_lower),
              is_word_boundary |-> FALSE]
        ELSE NoMatch

\* Lines 70-105: one candidate per matching index entry, in index order.
RECURSIVE CollectCandidates(_, _, _, _)
CollectCandidates(index, address_lower, i, acc) ==
    IF i > Len(index) THEN acc
    ELSE LET variant == index[i].key
             m == ProbeVariant(variant, Lower(variant), address_lower)
         IN  CollectCandidates(index, address_lower, i + 1,
                IF m.found
                THEN Append(acc, [official |-> index[i].val,
                                  variant |-> variant,
                                  position |-> m.position,
                                  is_word_boundary |-> m.is_word_boundary,
                                  length |-> Len(variant)])
                ELSE acc)

BoolRank(b) == IF b THEN 1 ELSE 0

\* Tuple order of the sort key (position, is_word_boundary, length).
KeyLess(x, y) ==
    \/ x.position < y.position
    \/ /\ x.position = y.position
       /\ BoolRank(x.is_word_boundary) < BoolRank(y.is_word_boundary)
    \/ /\ x.position = y.position
       /\ x.is_word_boundary = y.is_word_boundary
       /\ x.length < y.length

KeyEqual(x, y) == ~KeyLess(x, y) /\ ~KeyLess(y, x)

\* Mutant of LastAfterSort: the sort key is (length, is_word_boundary,
\* position), the longest variant first in rank.
LastAfterSortByLength(candidates) ==
    LET Less(x, y) ==
            \/ x.length < y.length
            \/ /\ x.length = y.length
               /\ BoolRank(x.is_word_boundary) < BoolRank(y.is_word_boundary)
            \/ /\ x.length = y.length
               /\ x.is_word_boundary = y.is_word_boundary
               /\ x.position < y.position
    IN  candidates[CHOOSE i \in DOMAIN candidates :
            \A j \in DOMAIN candidates :
                \/ Less(candidates[j], candidates[i])
                \/ (~Less(candidates[i], candidates[j]) /\ j <= i)]

\* candidates.sort(key=...); candidates[-1]: list.sort is stable, so the
\* last element is the latest-collected candidate among those of greatest key.
LastAfterSort(candidates) ==
    candidates[CHOOSE i \in DOMAIN candidates :
        \A j \in DOMAIN candidates :
            \/ KeyLess(candidates[j], candidates[i])
            \/ (KeyEqual(candidates[j], candidates[i]) /\ j <= i)]

\* extract_province(address): the returned value with the candidate list
\* and the winning candidate the call computed on the way.
NoCandidate == [official |-> <<>>, variant |-> <<>>, position |-> 0,
                is_word_boundary |-> FALSE, length |-> 0]

\* Mutant of ExtractRightmost: the matched variant is returned in place of
\* its official name.
ExtractRightmostRawVariant(index, address) ==
    IF Falsy(address)
    THEN [result |-> None, candidates |-> <<>>, winner |-> NoCandidate]
    ELSE LET candidates == CollectCandidates(index, Lower(address.str), 1, <<>>)
         IN  IF candidates = <<>>
             THEN [result |-> None, candidates |-> <<>>, winner |-> NoCandidate]
             ELSE LET w == LastAfterSort(candidates)
                  IN  [result |-> Some(w.variant), candidates |-> candidates,
                       winner |-> [official |-> w.official, variant |-> w.variant,
                                   position |-> w.position,
                                   is_word_boundary |-> w.is_word_boundary,
                                   length |-> w.length]]

ExtractRightmost(index, address) ==
    IF Falsy(address)
    THEN [result |-> None, candidates |-> <<>>, winner |-> NoCandidate]
    ELSE LET candidates == CollectCandidates(index, Lower(address.str), 1, <<>>)
         IN  IF candidates = <<>>
             THEN [result |-> None, candidates |-> <<>>, winner |-> NoCandidate]
             ELSE LET w == LastAfterSort(candidates)
                  IN  [result |-> Some(w.official), candidates |-> candidates,
                       winner |-> [official |-> w.official, variant |-> w.variant,
                                   position |-> w.position,
                                   is_word_boundary |-> w.is_word_boundary,
                                   length |-> w.length]]

(***************************************************************************)
(* ProvinceComparator.compare_provinces (lines 117-152)                    *)
(***************************************************************************)
Reason(kind, a, b) == [kind |-> kind, a |-> a, b |-> b]

CompareResult(match, reason) == [match |-> match, reason |-> reason]

\* Mutant of CompareProvincesOf: the check for a common successor is missing.
CompareProvincesNoCommon(merged, prov1, prov2) ==
    IF Falsy(prov1) \/ Falsy(prov2)
    THEN CompareResult(FALSE, Reason("undetermined", <<>>, <<>>))
    ELSE LET p1 == prov1.str
             p2 == prov2.str
         IN  IF p1 = p2
             THEN CompareResult(TRUE, Reason("exact", <<>>, <<>>))
             ELSE IF DictHas(merged, p1) /\ DictGet(merged, p1) = p2
             THEN CompareResult(TRUE, Reason("merged_into", p1, p2))
             ELSE IF DictHas(merged, p2) /\ DictGet(merged, p2) = p1
             THEN CompareResult(TRUE, Reason("merged_into", p2, p1))
             ELSE CompareResult(FALSE, Reason("mismatch", p1, p2))

CompareProvincesOf(merged, prov1, prov2) ==
    IF Falsy(prov1) \/ Falsy(prov2)
    THEN CompareResult(FALSE, Reason("undetermined", <<>>, <<>>))
    ELSE LET p1 == prov1.str
             p2 == prov2.str
         IN  IF p1 = p2
             THEN CompareResult(TRUE, Reason("exact", <<>>, <<>>))
             ELSE IF DictHas(merged, p1) /\ DictGet(merged, p1) = p2
             THEN CompareResult(TRUE, Reason("merged_into", p1, p2))
             ELSE IF DictHas(merged, p2) /\ DictGet(merged, p2) = p1
             THEN CompareResult(TRUE, Reason("merged_into", p2, p1))
             ELSE IF /\ DictHas(merged, p1)
                     /\ DictHas(merged, p2)
                     /\ DictGet(merged, p1) = DictGet(merged, p2)
             THEN CompareResult(TRUE, Reason("both_merged", DictGet(merged, p1), <<>>))
             ELSE CompareResult(FALSE, Reason("mismatch", p1, p2))

(***************************************************************************)
(* ProvinceComparator.compare_address_pair (lines 154-179)                 *)
(***************************************************************************)
NotAvailable == <<"N", "/", "A">>

Digits == <<"0","1","2","3","4","5","6","7","8","9">>

\* str(index) of a non-negative int.
RECURSIVE StrOfNat(_)
StrOfNat(n) ==
    IF n < 10 THEN <<Digits[n + 1]>>
    ELSE Append(StrOfNat(n \div 10), Digits[(n % 10) + 1])

\* prov if prov else "N/A"
OrNotAvailable(prov) == IF Falsy(prov) THEN NotAvailable ELSE prov.str

\* Mutant of CompareAddressPairOf: the province fields carry the extracted
\* value as it is, without the "N/A" sentinel.
CompareAddressPairNoSentinel(index, merged, address1, address2, idx) ==
    LET prov1 == ExtractRightmost(index, address1).result
        prov2 == ExtractRightmost(index, address2).result
        cmp == CompareProvincesOf(merged, prov1, prov2)
    IN  [index |-> StrOfNat(idx),
         address1 |-> address1,
         address2 |-> address2,
         province1 |-> prov1.str,
         province2 |-> prov2.str,
         match |-> cmp.match,
         reason |-> cmp.reason]

CompareAddressPairOf(index, merged, address1, address2, idx) ==
    LET prov1 == ExtractRightmost(index, address1).result
        prov2 == ExtractRightmost(index, address2).result
        cmp == CompareProvincesOf(merged, prov1, prov2)
    IN  [index |-> StrOfNat(idx),
         address1 |-> address1,
         address2 |-> address2,
         province1 |-> OrNotAvailable(prov1),
         province2 |-> OrNotAvailable(prov2),
         match |-> cmp.match,
         reason |-> cmp.reason]

(***************************************************************************)
(* scripts/compare_address_pairs.py: process_csv (lines 17-87)             *)
(***************************************************************************)
\* str.strip(): leading and trailing whitespace removed.
IsSpace(c) == c = " "

RECURSIVE LStrip(_)
LStrip(t) == IF t # <<>> /\ IsSpace(Head(t)) THEN LStrip(Tail(t)) ELSE t

RECURSIVE RStrip(_)
RStrip(t) ==
    IF t # <<>> /\ IsSpace(t[Len(t)]) THEN RStrip(SubSeq(t, 1, Len(t) - 1)) ELSE t

Strip(t) == RStrip(LStrip(t))

MISMATCH == <<"M","I","S","M","A","T","C","H">>
Ambiguity == <<"A","m","b","i","g","u","i","t","y">>
ExcludedLabels == {MISMATCH, Ambiguity}

\* Mutant of ProcessRow: the label in the 4th field is not looked at.
ProcessRowNoLabels(index, merged, results, row) ==
    IF row = <<>> \/ Len(row) < 3 THEN results
    ELSE LET addr1 == Strip(row[2])
             addr2 == Strip(row[3])
         IN  IF addr1 # <<>> /\ addr2 # <<>>
             THEN Append(results,
                    [CompareAddressPairOf(index, merged, Some(addr1), Some(addr2), 0)
                        EXCEPT !.index = Strip(row[1])])
             ELSE results

\* Lines 40-53, the body of the loop over the rows: results after the row.
\* The index handed to compare_address_pair is the stripped first field, a
\* str, and str(index) of a str is that str.
ProcessRow(index, merged, results, row) ==
    IF row = <<>> \/ Len(row) < 3 THEN results
    ELSE IF Len(row) > 3 /\ row[4] \in ExcludedLabels THEN results
    ELSE LET addr1 == Strip(row[2])
             addr2 == Strip(row[3])
         IN  IF addr1 # <<>> /\ addr2 # <<>>
             THEN Append(results,
                    [CompareAddressPairOf(index, merged, Some(addr1), Some(addr2), 0)
                        EXCEPT !.index = Strip(row[1])])
             ELSE results

\* Lines 56-58: the number of results with match true.
RECURSIVE CountMatched(_)
CountMatched(results) ==
    IF results = <<>> THEN 0
    ELSE (IF Head(results).match THEN 1 ELSE 0) + CountMatched(Tail(results))

(***************************************************************************)
(* gradio_app.py: normalize_vietnamese (lines 22-40)                       *)
(***************************************************************************)
\* unicodedata.normalize('NFC', text) on the modelled alphabet: a combining
\* grave accent composes with the a, o, A or O before it; the modelled
\* texts put it nowhere else.
Compose(c) ==
    CASE c = "a" -> "af"
      [] c = "o" -> "of"
      [] c = "A" -> "AF"
      [] c = "O" -> "OF"
      [] OTHER -> c

Composable(c) == c \in {"a", "o", "A", "O"}

RECURSIVE NFC(_)
NFC(s) ==
    IF Len(s) < 2 THEN s
    ELSE IF s[2] = "cg" /\ Composable(s[1])
    THEN <<Compose(s[1])>> \o NFC(SubSeq(s, 3, Len(s)))
    ELSE <<s[1]>> \o NFC(Tail(s))

\* str.replace(old, new): every non-overlapping occurrence, left to right.
RECURSIVE Replace(_, _, _)
Replace(s, old, new) ==
    IF Len(s) < Len(old) THEN s
    ELSE IF OccursAt(old, s, 0)
    THEN new \o Replace(SubSeq(s, Len(old) + 1, Len(s)), old, new)
    ELSE <<s[1]>> \o Replace(Tail(s), old, new)

\* The replacements dict, in its order: (old, new) pairs.
Replacements == <<
    << <<"H","o","af">>, <<"H","of","a">> >>,
    << <<"h","o","af">>, <<"h","of","a">> >>,
    << <<"H","O","AF">>, <<"H","OF","A">> >> >>

RECURSIVE ApplyReplacements(_, _)
ApplyReplacements(s, i) ==
    IF i > Len(Replacements) THEN s
    ELSE ApplyReplacements(Replace(s, Replacements[i][1], Replacements[i][2]), i + 1)

NormalizeVietnamese(text) ==
    IF text = <<>> THEN text ELSE ApplyReplacements(NFC(text), 1)

(***************************************************************************)
(* gradio_app.py: ProvinceExtractor.extract_province, best-specificity     *)
(* (lines 61-125)                                                          *)
(***************************************************************************)
LengthWeight == 100
BoundaryBonus == 1000
PositionWeight == 50
MultiWordBonus == 500

\* Mutant of ScaledScore: the position term is subtracted.
ScaledScoreEarlier(variant, position, is_word_boundary, address_len) ==
    (Len(variant) * LengthWeight
        + (IF is_word_boundary THEN BoundaryBonus ELSE 0)
        + (IF Contains(<<" ">>, variant) THEN MultiWordBonus ELSE 0)) * address_len
    - position * PositionWeight

\* score = len(variant_str) * 100 [+ 1000] + start / len(address_lower) * 50
\* [+ 500], kept as score * len(address_lower): the quotient is then an
\* integer and two candidates of one call compare as their scores do.
ScaledScore(variant, position, is_word_boundary, address_len) ==
    (Len(variant) * LengthWeight
        + (IF is_word_boundary THEN BoundaryBonus ELSE 0)
        + (IF Contains(<<" ">>, variant) THEN MultiWordBonus ELSE 0)) * address_len
    + position * PositionWeight

\* Lines 73-118: one scored candidate per matching index entry.
RECURSIVE CollectScored(_, _, _, _)
CollectScored(index, address_lower, i, acc) ==
    IF i > Len(index) THEN acc
    ELSE LET variant == index[i].key
             m == ProbeVariant(variant, Lower(NormalizeVietnamese(variant)), address_lower)
         IN  CollectScored(index, address_lower, i + 1,
                IF m.found
                THEN Append(acc, [official |-> index[i].val,
                                  variant |-> variant,
                                  position |-> m.position,
                                  is_word_boundary |-> m.is_word_boundary,
                                  score |-> ScaledScore(variant, m.position,
                                                        m.is_word_boundary,
                                                        Len(address_lower))])
                ELSE acc)

\* candidates.sort(key=score, reverse=True); candidates[0]: the sort is
\* stable, so the first element is the earliest-collected candidate among
\* those of greatest score.
FirstAfterSort(candidates) ==
    candidates[CHOOSE i \in DOMAIN candidates :
        \A j \in DOMAIN candidates :
            \/ candidates[j].score < candidates[i].score
            \/ (candidates[j].score = candidates[i].score /\ i <= j)]

NoScored == [official |-> <<>>, variant |-> <<>>, position |-> 0,
             is_word_boundary |-> FALSE, score |-> 0]

ExtractBest(index, address) ==
    IF Falsy(address)
    THEN [result |-> None, candidates |-> <<>>, winner |-> NoScored]
    ELSE LET candidates ==
                CollectScored(index, Lower(NormalizeVietnamese(address.str)), 1, <<>>)
         IN  IF candidates = <<>>
             THEN [result |-> None, candidates |-> <<>>, winner |-> NoScored]
             ELSE LET w == FirstAfterSort(candidates)
                  IN  [result |-> Some(w.official), candidates |-> candidates,
                       winner |-> [official |-> w.official, variant |-> w.variant,
                                   position |-> w.position,
                                   is_word_boundary |-> w.is_word_boundary,
                                   score |-> w.score]]

(***************************************************************************)
(* gradio_app.py: compare_provinces (lines 127-138), compare_addresses     *)
(* (lines 146-176)                                                         *)
(***************************************************************************)
\* ProvinceExtractor.compare_provinces: exact match only.
GradioCompareProvincesOf(prov1, prov2) ==
    IF Falsy(prov1) \/ Falsy(prov2)
    THEN CompareResult(FALSE, Reason("undetermined", <<>>, <<>>))
    ELSE IF prov1.str = prov2.str
    THEN CompareResult(TRUE, Reason("exact", <<>>, <<>>))
    ELSE CompareResult(FALSE, Reason("mismatch", prov1.str, prov2.str))

\* The display texts of the form; the marks are one character each.
NotDetermined ==
    <<"[x]"," ","K","h","oo","n","g"," ","x","as","c"," ","dd","ij","n","h",
      " ","dd","uwowj","c">>
StatusMatch == <<"[v]"," ","M","A","T","C","H">>
StatusMismatch == <<"[x]"," ","M","I","S","M","A","T","C","H">>

\* province if province else the not-determined text
OrNotDetermined(prov) == IF Falsy(prov) THEN NotDetermined ELSE prov.str

\* compare_addresses(address1, address2) with the module's extractor.
CompareAddressesOf(index, address1, address2) ==
    LET province1 == ExtractBest(index, address1).result
        province2 == ExtractBest(index, address2).result
        cmp == GradioCompareProvincesOf(province1, province2)
    IN  [prov1_display |-> OrNotDetermined(province1),
         prov2_display |-> OrNotDetermined(province2),
         match_status |-> IF cmp.match THEN StatusMatch ELSE StatusMismatch,
         match_emoji |-> IF cmp.match THEN "[v]" ELSE "[x]"]

(***************************************************************************)
(* Modelled inputs                                                         *)
(***************************************************************************)
MaxProvinces == 2

Catalogue == <<
    ListEntry(VinhLong, <<TraVinh, TinhTraVinh>>),
    ListEntry(NgheAn, <<Vinh, NA>>),
    ListEntry(TraVinhProv, <<TraVinh, TV>>),
    StrEntry(HueCity, HueAscii),
    NumEntry(DaNang) >>

\* json.load keeps one value per key: the officials of a ground truth differ.
RECURSIVE SeqsOver(_, _)
SeqsOver(S, n) ==
    IF n = 0 THEN {<<>>}
    ELSE LET shorter == SeqsOver(S, n - 1)
         IN  shorter \cup {Append(q, x) : q \in {r \in shorter : Len(r) = n - 1}, x \in S}

DistinctKeys(gt) == \A i, j \in DOMAIN gt : gt[i].official = gt[j].official => i = j

GroundTruths ==
    {gt \in SeqsOver({Catalogue[i] : i \in DOMAIN Catalogue}, MaxProvinces) :
        gt # <<>> /\ DistinctKeys(gt)}

\* An address is a concatenation of at most MaxParts fragments.
MaxParts == 3
MaxPairParts == 1

Fragments == {TraVinh, Vinh, NA, TV, <<",">>}

RECURSIVE TextsOf(_, _)
TextsOf(F, n) ==
    IF n = 0 THEN {<<>>}
    ELSE LET shorter == TextsOf(F, n - 1)
         IN  shorter \cup {t \o f : t \in shorter, f \in F}

AddressesOf(F, n) == {None} \cup {Some(t) : t \in TextsOf(F, n)}

Addresses == AddressesOf(Fragments, MaxParts)
\* The two addresses of a pair are built from fewer fragments.
PairFragments == {Vinh, TV, <<",">>}
PairAddresses == AddressesOf(PairFragments, MaxPairParts)

\* Province arguments of compare_provinces: absent, empty, the official
\* names and a legacy full name.
Provinces ==
    {None, Some(<<>>), Some(VinhLong), Some(NgheAn), Some(TraVinhProv),
     Some(TinhTraVinh)}

RowIndexes == {10}

\* compare_provinces over every merge relation on a pool of names.
NumCmpNames == 3
CmpNamePool == <<VinhLong, NgheAn, TraVinhProv, KhanhHoa, HueCity>>
CmpNames == {CmpNamePool[i] : i \in 1..NumCmpNames}

RECURSIVE RelationsUpTo(_)
RelationsUpTo(i) ==
    IF i = 0 THEN {<<>>}
    ELSE LET before == RelationsUpTo(i - 1)
         IN  before \cup {Append(m, [key |-> CmpNamePool[i], val |-> v]) :
                              m \in before, v \in CmpNames}

MergeRelations == RelationsUpTo(NumCmpNames)
CmpProvinces == {None, Some(<<>>)} \cup {Some(n) : n \in CmpNames}

\* Case changes: addresses that spell Hoa with the old accent placement,
\* composed and decomposed.
MaxCaseParts == 2
KhanhHoaDecomposed == <<"K","h","as","n","h"," ","H","o","a","cg">>
CaseCatalogue == <<
    ListEntry(KhanhHoa, <<KH>>),
    ListEntry(NgheAn, <<Vinh, NA>>) >>
CaseGroundTruths ==
    {gt \in SeqsOver({CaseCatalogue[i] : i \in DOMAIN CaseCatalogue}, MaxProvinces) :
        gt # <<>> /\ DistinctKeys(gt)}
CaseFragments == {KhanhHoaOld, KhanhHoaDecomposed, KH, Vinh, <<",">>}
CaseAddresses == AddressesOf(CaseFragments, MaxCaseParts)

\* Batch input: what csv.reader yields, a list of fields per line and an
\* empty list for a blank line.
MaxRows == 2
OtherLabel == <<"M","A","T","C","H">>
RowPool == {
    <<>>,
    << <<"1">> >>,
    << <<"2">>, TraVinh >>,
    << <<"3">>, TraVinh, Vinh >>,
    << <<" ","4"," ">>, <<" ">> \o TraVinh \o <<" ">>, Vinh >>,
    << <<"5">>, Vinh, Vinh, MISMATCH >>,
    << <<"6">>, Vinh, Vinh, Ambiguity >>,
    << <<"7">>, Vinh, <<"x">>, OtherLabel, <<"x">> >>,
    << <<"8">>, <<>>, Vinh >>,
    << <<"9">>, Vinh, <<" ">> >> }
CsvFiles == SeqsOver(RowPool, MaxRows)
CsvGroundTruths == {
    << Catalogue[2], Catalogue[3] >>,
    << Catalogue[1] >>,
    << Catalogue[5] >> }

\* The form: a first address of up to MaxParts fragments, a second of up to
\* MaxPairParts.
FormFragments == {Vinh, TV, <<",">>}
FormAddresses == AddressesOf(FormFragments, MaxParts)
FormPairAddresses == AddressesOf(FormFragments, MaxPairParts)
FormGroundTruths == {
    << Catalogue[2], Catalogue[3] >>,
    << Catalogue[1], Catalogue[3] >>,
    << Catalogue[4] >>,
    << Catalogue[5] >> }

\* The rightmost-match extractor on variants that begin alike: Vinh and
\* Vinh Long can be recorded at one position.
VinhLongAscii == <<"V","i","n","h"," ","L","o","n","g">>
RightCatalogue == <<
    ListEntry(NgheAn, <<Vinh, NA>>),
    ListEntry(VinhLong, <<VinhLongAscii>>),
    ListEntry(TraVinhProv, <<TraVinh, TV>>) >>
RightGroundTruths ==
    {gt \in SeqsOver({RightCatalogue[i] : i \in DOMAIN RightCatalogue}, MaxProvinces) :
        gt # <<>> /\ DistinctKeys(gt)}
RightFragments == {Vinh, <<" ","L","o","n","g">>, NA, <<"x">>, <<",">>}
RightAddresses == AddressesOf(RightFragments, MaxParts)

(***************************************************************************)
(* State machine                                                           *)
(***************************************************************************)
NoCall == [op |-> "none"]

Init ==
    /\ pc = "new"
    /\ ground_truth = <<>>
    /\ variant_to_official = <<>>
    /\ merged_provinces = <<>>
    /\ error = "none"
    /\ call = NoCall

\* ProvinceComparator(ground_truth_file).  ground_truth is what json.load
\* returned.  An exception in the loops leaves the caller without an object:
\* nothing of the half-built instance is reachable, so no index is kept.
Construct(gt) ==
    /\ pc = "new"
    /\ ground_truth' = gt
    /\ IF ConstructionRaises(gt)
       THEN /\ pc' = "failed"
            /\ error' = "TypeError"
            /\ UNCHANGED <<variant_to_official, merged_provinces>>
       ELSE LET index == BuildIndex(<<>>, gt, 1)
            IN  /\ pc' = "ready"
                /\ variant_to_official' = index
                /\ merged_provinces' = BuildMerged(<<>>, index, gt, 1)
                /\ error' = "none"
    /\ call' = NoCall

\* The matcher serves one call at a time (the code is synchronous): call
\* holds the call that has just returned, until its caller takes the result.
Idle == pc = "ready" /\ call.op = "none"

\* Mutant of ExtractProvince: a hit is memoised in the index under the address.
ExtractProvinceCaching(address) ==
    /\ Idle
    /\ \E r \in {ExtractRightmost(variant_to_official, address)} :
          /\ call' = [op |-> "extract_province", address |-> address,
                      result |-> r.result, candidates |-> r.candidates,
                      winner |-> r.winner]
          /\ variant_to_official' =
                IF r.result.none THEN variant_to_official
                ELSE DictPut(variant_to_official, address.str, r.result.str)
    /\ UNCHANGED <<pc, ground_truth, merged_provinces, error>>

\* comparator.extract_province(address)
ExtractProvince(address) ==
    /\ Idle
    /\ \E r \in {ExtractRightmost(variant_to_official, address)} :
          call' = [op |-> "extract_province", address |-> address,
                   result |-> r.result, candidates |-> r.candidates,
                   winner |-> r.winner]
    /\ UNCHANGED <<pc, ground_truth, variant_to_official, merged_provinces, error>>

\* comparator.compare_provinces(prov1, prov2)
CompareProvinces(prov1, prov2) ==
    /\ Idle
    /\ call' = [op |-> "compare_provinces", prov1 |-> prov1, prov2 |-> prov2,
                result |-> CompareProvincesOf(merged_provinces, prov1, prov2)]
    /\ UNCHANGED <<pc, ground_truth, variant_to_official, merged_provinces, error>>

\* comparator.compare_address_pair(address1, address2, index)
CompareAddressPair(address1, address2, idx) ==
    /\ Idle
    /\ call' = [op |-> "compare_address_pair",
                result |-> CompareAddressPairOf(variant_to_official, merged_provinces,
                                                address1, address2, idx)]
    /\ UNCHANGED <<pc, ground_truth, variant_to_official, merged_provinces, error>>

\* gradio_app.py: ProvinceExtractor(ground_truth_path), lines 46-59: the
\* same index loops, and no merge relation.
ExtractorInit(gt) ==
    /\ pc = "new"
    /\ ground_truth' = gt
    /\ IF ConstructionRaises(gt)
       THEN /\ pc' = "failed"
            /\ error' = "TypeError"
            /\ UNCHANGED variant_to_official
       ELSE /\ pc' = "ready"
            /\ variant_to_official' = BuildIndex(<<>>, gt, 1)
            /\ error' = "none"
    /\ call' = NoCall
    /\ UNCHANGED merged_provinces

\* gradio_app.py: extractor.extract_province(address)
GradioExtractProvince(address) ==
    /\ Idle
    /\ \E r \in {ExtractBest(variant_to_official, address)} :
          call' = [op |-> "extract_province", address |-> address,
                   result |-> r.result, candidates |-> r.candidates,
                   winner |-> r.winner]
    /\ UNCHANGED <<pc, ground_truth, variant_to_official, merged_provinces, error>>

IsAsciiLetter(c) == IsAsciiUpper(c) \/ IsAsciiLower(c)

\* extractor.extract_province on the address of the call that has just
\* returned, with the case of its i-th character, an ASCII letter, changed.
\* The record keeps the first call's address and result beside the second's.
GradioExtractRecased(i) ==
    /\ pc = "ready"
    /\ call.op = "extract_province"
    /\ ~call.address.none
    /\ i \in DOMAIN call.address.str
    /\ IsAsciiLetter(call.address.str[i])
    /\ \E address \in {Some([call.address.str EXCEPT ![i] = SwapAsciiCase(@)])} :
          \E r \in {ExtractBest(variant_to_official, address)} :
             call' = [op |-> "extract_province_recased", address |-> address,
                      result |-> r.result,
                      base_address |-> call.address, base_result |-> call.result]
    /\ UNCHANGED <<pc, ground_truth, variant_to_official, merged_provinces, error>>

\* The caller takes the result; the matcher is idle again.
Return ==
    /\ pc = "ready"
    /\ call.op # "none"
    /\ call' = NoCall
    /\ UNCHANGED <<pc, ground_truth, variant_to_official, merged_provinces, error>>

Next ==
    \/ pc = "new" /\ \E gt \in GroundTruths : Construct(gt)
    \/ Idle /\ \E address \in Addresses : ExtractProvince(address)
    \/ Idle /\ \E prov1, prov2 \in Provinces : CompareProvinces(prov1, prov2)
    \/ Idle /\ \E address1, address2 \in PairAddresses, idx \in RowIndexes :
            CompareAddressPair(address1, address2, idx)
    \/ Return

Spec == Init /\ [][Next]_vars

(***************************************************************************)
(* The interactive extractor of gradio_app.py over the same inputs         *)
(***************************************************************************)
NextBest ==
    \/ pc = "new" /\ \E gt \in GroundTruths : ExtractorInit(gt)
    \/ Idle /\ \E address \in Addresses : GradioExtractProvince(address)
    \/ Return

SpecBest == Init /\ [][NextBest]_vars

(***************************************************************************)
(* The interactive extractor under changes of ASCII case                   *)
(***************************************************************************)
NextCase ==
    \/ pc = "new" /\ \E gt \in CaseGroundTruths : ExtractorInit(gt)
    \/ Idle /\ \E address \in CaseAddresses : GradioExtractProvince(address)
    \/ \E i \in 1..(MaxCaseParts * Len(KhanhHoaDecomposed)) : GradioExtractRecased(i)
    \/ Return

SpecCase == Init /\ [][NextCase]_vars

(***************************************************************************)
(* compare_provinces as a function of the merge relation and its arguments *)
(***************************************************************************)
InitCmp ==
    /\ pc = "ready"
    /\ ground_truth = <<>>
    /\ variant_to_official = <<>>
    /\ merged_provinces \in MergeRelations
    /\ error = "none"
    /\ call = NoCall

NextCmp ==
    \/ Idle /\ \E prov1, prov2 \in CmpProvinces : CompareProvinces(prov1, prov2)
    \/ Return

SpecCmp == InitCmp /\ [][NextCmp]_vars

(***************************************************************************)
(* process_csv: the comparator is built, then the rows are read in order   *)
(***************************************************************************)
\* Lines 29-37: comparator = ProvinceComparator(ground_truth_file), then
\* results = [] and the file is opened.  An exception of the constructor
\* leaves process_csv before any row is read.
ProcessCsvOpen(gt, rows) ==
    /\ pc = "new"
    /\ ground_truth' = gt
    /\ IF ConstructionRaises(gt)
       THEN /\ pc' = "failed"
            /\ error' = "TypeError"
            /\ call' = NoCall
            /\ UNCHANGED <<variant_to_official, merged_provinces>>
       ELSE LET index == BuildIndex(<<>>, gt, 1)
            IN  /\ pc' = "ready"
                /\ variant_to_official' = index
                /\ merged_provinces' = BuildMerged(<<>>, index, gt, 1)
                /\ error' = "none"
                /\ call' = [op |-> "process_csv", rows |-> rows, next |-> 1,
                            results |-> <<>>]

\* Lines 39-53: one turn of the loop over the rows.
ProcessCsvRow ==
    /\ pc = "ready"
    /\ call.op = "process_csv"
    /\ call.next <= Len(call.rows)
    /\ call' = [call EXCEPT
            !.next = @ + 1,
            !.results = ProcessRow(variant_to_official, merged_provinces, @,
                                   call.rows[call.next])]
    /\ UNCHANGED <<pc, ground_truth, variant_to_official, merged_provinces, error>>

\* Lines 55-87: the statistics, the output file and the returned list.
ProcessCsvFinish ==
    /\ pc = "ready"
    /\ call.op = "process_csv"
    /\ call.next > Len(call.rows)
    /\ call' = [op |-> "process_csv_returned", rows |-> call.rows,
                next |-> call.next, results |-> call.results,
                total |-> Len(call.results),
                matched |-> CountMatched(call.results),
                output |-> call.results]
    /\ UNCHANGED <<pc, ground_truth, variant_to_official, merged_provinces, error>>

NextCsv ==
    \/ pc = "new" /\ \E gt \in CsvGroundTruths, rows \in CsvFiles : ProcessCsvOpen(gt, rows)
    \/ ProcessCsvRow
    \/ ProcessCsvFinish

SpecCsv == Init /\ [][NextCsv]_vars

(***************************************************************************)
(* The form of gradio_app.py: its extractor, then compare_addresses        *)
(***************************************************************************)
\* gradio_app.py: compare_addresses(address1, address2) of the form.
GradioCompareAddresses(address1, address2) ==
    /\ Idle
    /\ call' = [op |-> "compare_addresses",
                address1 |-> address1, address2 |-> address2,
                result |-> CompareAddressesOf(variant_to_official, address1, address2)]
    /\ UNCHANGED <<pc, ground_truth, variant_to_official, merged_provinces, error>>

NextForm ==
    \/ pc = "new" /\ \E gt \in FormGroundTruths : ExtractorInit(gt)
    \/ Idle /\ \E address1 \in FormAddresses, address2 \in FormPairAddresses :
            GradioCompareAddresses(address1, address2)
    \/ Return

SpecForm == Init /\ [][NextForm]_vars

(***************************************************************************)
(* The rightmost-match extractor over variants that begin alike            *)
(***************************************************************************)
NextRight ==
    \/ pc = "new" /\ \E gt \in RightGroundTruths : Construct(gt)
    \/ Idle /\ \E address \in RightAddresses : ExtractProvince(address)
    \/ Return

SpecRight == Init /\ [][NextRight]_vars

(***************************************************************************)
(* Properties                                                              *)
(***************************************************************************)
Max(S) == CHOOSE x \in S : \A y \in S : y <= x

\* v occurs in a as a token: start of text or a delimiter before it, end of
\* text or a delimiter after it.
BoundaryOccurrence(v, a) ==
    \E p \in 0..(Len(a) - Len(v)) :
        /\ OccursAt(v, a, p)
        /\ (p = 0 \/ IsDelim(a[p]))
        /\ (p + Len(v) = Len(a) \/ IsDelim(a[p + Len(v) + 1]))

\* The index entry with key k matches the address a by one of the probes.
KeyMatches(k, a) ==
    \/ BoundaryOccurrence(Lower(k), Lower(a))
    \/ (Len(k) >= 4 /\ Contains(Lower(k), Lower(a)))

MultiWord(v) == \E i \in DOMAIN v : v[i] = " "

\* C1: compare_provinces returns the first applicable outcome in the order
\* undetermined (an argument is absent or empty), exact match, prov1 merged
\* into prov2, prov2 merged into prov1, both merged into one province,
\* mismatch; for every merge relation and every pair of arguments.
C1_FirstApplicableOutcome ==
    call.op = "compare_provinces" =>
        LET m == merged_provinces
            MapsTo(a, b) == \E i \in DOMAIN m : m[i].key = a /\ m[i].val = b
            Common(a, b) == {x \in CmpNames : MapsTo(a, x) /\ MapsTo(b, x)}
            absent == Falsy(call.prov1) \/ Falsy(call.prov2)
            p1 == call.prov1.str
            p2 == call.prov2.str
            r == call.result
        IN  /\ absent => r = CompareResult(FALSE, Reason("undetermined", <<>>, <<>>))
            /\ (~absent /\ p1 = p2) =>
                  r = CompareResult(TRUE, Reason("exact", <<>>, <<>>))
            /\ (~absent /\ p1 # p2 /\ MapsTo(p1, p2)) =>
                  r = CompareResult(TRUE, Reason("merged_into", p1, p2))
            /\ (~absent /\ p1 # p2 /\ ~MapsTo(p1, p2) /\ MapsTo(p2, p1)) =>
                  r = CompareResult(TRUE, Reason("merged_into", p2, p1))
            /\ (~absent /\ p1 # p2 /\ ~MapsTo(p1, p2) /\ ~MapsTo(p2, p1)
                    /\ Common(p1, p2) # {}) =>
                  /\ r.match
                  /\ r.reason.kind = "both_merged"
                  /\ r.reason.a \in Common(p1, p2)
            /\ (~absent /\ p1 # p2 /\ ~MapsTo(p1, p2) /\ ~MapsTo(p2, p1)
                    /\ Common(p1, p2) = {}) =>
                  r = CompareResult(FALSE, Reason("mismatch", p1, p2))

\* Two different keys of the relation with one successor were compared.
C1_Witness ==
    /\ call.op = "compare_provinces"
    /\ ~Falsy(call.prov1) /\ ~Falsy(call.prov2)
    /\ call.prov1 # call.prov2
    /\ DictHas(merged_provinces, call.prov1.str)
    /\ DictHas(merged_provinces, call.prov2.str)
    /\ call.result.reason.kind = "both_merged"

\* C2: when a province C of the ground truth lists a legacy full name L (a
\* variant carrying a designator token), the merge relation maps L to C and
\* compare_provinces(L, C) is a match with a merge-based reason.
C2_LegacyNameMergesIntoCurrent ==
    pc = "ready" =>
        \A n \in DOMAIN ground_truth : \A i \in DOMAIN Items(ground_truth[n]) :
            LET L == Items(ground_truth[n])[i]
                C == ground_truth[n].official
            IN  HasDesignator(L) =>
                  /\ DictHas(merged_provinces, L)
                  /\ DictGet(merged_provinces, L) = C
                  /\ (/\ call.op = "compare_provinces"
                      /\ call.prov1 = Some(L)
                      /\ call.prov2 = Some(C)) =>
                        /\ call.result.match
                        /\ call.result.reason.kind \in {"merged_into", "both_merged"}

\* C3: in a best-specificity extraction, a candidate of a multi-word variant
\* V outscores the candidate of a single-word variant W contained in V and
\* mapped to another province, and W's province is not returned.
C3_MultiWordOutranksContainedWord ==
    call.op = "extract_province" =>
        \A i, j \in DOMAIN call.candidates :
            LET V == call.candidates[i]
                W == call.candidates[j]
            IN  (/\ MultiWord(V.variant)
                 /\ ~MultiWord(W.variant)
                 /\ Contains(W.variant, V.variant)
                 /\ V.official # W.official) =>
                   /\ V.score > W.score
                   /\ call.result # Some(W.official)

\* Two candidates of one call that agree in variant length, boundary flag
\* and multi-word flag, the first recorded earlier in the address.
SameRankEarlier(x, y) ==
    /\ Len(x.variant) = Len(y.variant)
    /\ x.is_word_boundary = y.is_word_boundary
    /\ MultiWord(x.variant) = MultiWord(y.variant)
    /\ x.position < y.position

\* C4 as stated: among candidates equal in variant length, boundary flag and
\* multi-word flag, the one occurring earlier in the address wins.
C4_EarlierWins ==
    call.op = "extract_province" =>
        \A i, j \in DOMAIN call.candidates :
            SameRankEarlier(call.candidates[i], call.candidates[j]) =>
                /\ call.candidates[i].score > call.candidates[j].score
                /\ call.winner # call.candidates[j]

\* C4 as the code has it: among candidates equal in variant length,
\* boundary flag and multi-word flag, the one recorded later in the address
\* scores higher, and the earlier one is never the winner.
C4_LaterWins ==
    call.op = "extract_province" =>
        \A i, j \in DOMAIN call.candidates :
            SameRankEarlier(call.candidates[i], call.candidates[j]) =>
                /\ call.candidates[j].score > call.candidates[i].score
                /\ call.winner # call.candidates[i]

\* Two such candidates of different provinces, and the later one won.
C4_Witness ==
    /\ call.op = "extract_province"
    /\ \E i, j \in DOMAIN call.candidates :
          /\ SameRankEarlier(call.candidates[i], call.candidates[j])
          /\ call.candidates[i].official # call.candidates[j].official
          /\ call.winner = call.candidates[j]

\* C5: extract_province returns the same result for an address and for the
\* address with the case of an ASCII letter changed.
C5_AsciiCaseInsensitive ==
    call.op = "extract_province_recased" => call.result = call.base_result

\* C6: a candidate of a variant shorter than 4 characters exists only where
\* the variant occurs in the address as a delimited token; an occurrence
\* inside a longer token gives no candidate and so never the result.
C6_ShortTokenGuard ==
    call.op = "extract_province" =>
        LET a == Lower(call.address.str)
        IN  /\ \A i \in DOMAIN call.candidates :
                  Len(call.candidates[i].variant) < 4 =>
                      /\ call.candidates[i].is_word_boundary
                      /\ BoundaryOccurrence(Lower(call.candidates[i].variant), a)
            /\ (~call.result.none /\ Len(call.winner.variant) < 4) =>
                  BoundaryOccurrence(Lower(call.winner.variant), a)

\* A short variant lies embedded in the address, nowhere as a token, and
\* the call made no candidate of it.
C6_Witness ==
    /\ call.op = "extract_province"
    /\ ~Falsy(call.address)
    /\ \E k \in DictKeys(variant_to_official) :
          /\ Len(k) < 4
          /\ Contains(Lower(k), Lower(call.address.str))
          /\ ~BoundaryOccurrence(Lower(k), Lower(call.address.str))
          /\ \A i \in DOMAIN call.candidates : call.candidates[i].variant # k

\* C7: extract_province returns none for an empty or absent address, and for
\* any other address returns none exactly when no index entry matches it by
\* the boundary probe or the substring probe.
C7_NoneIffNoMatch ==
    call.op = "extract_province" =>
        IF Falsy(call.address)
        THEN call.result = None
        ELSE (call.result = None) <=>
                ~\E i \in DOMAIN variant_to_official :
                    KeyMatches(variant_to_official[i].key, call.address.str)

\* A non-empty address that no index entry matches was answered with none.
C7_Witness ==
    /\ call.op = "extract_province"
    /\ ~Falsy(call.address)
    /\ variant_to_official # <<>>
    /\ call.result = None

\* The province n of the ground truth claims the key k: its official name
\* or one of its variants equals k or lowercases to k.
ClaimsKey(e, k) ==
    \/ e.official = k
    \/ Lower(e.official) = k
    \/ \E i \in DOMAIN Items(e) : Items(e)[i] = k \/ Lower(Items(e)[i]) = k

Claimants(k) == {n \in DOMAIN ground_truth : ClaimsKey(ground_truth[n], k)}

\* C8: after construction every key of the index maps to the official name
\* of the last province, in ground-truth order, that claims it.
C8_LastClaimantWins ==
    pc = "ready" =>
        \A i \in DOMAIN variant_to_official :
            \E claimants \in {Claimants(variant_to_official[i].key)} :
                /\ claimants # {}
                /\ variant_to_official[i].val = ground_truth[Max(claimants)].official

\* A key claimed by two provinces maps to the later one.
C8_Witness ==
    /\ pc = "ready"
    /\ \E i \in DOMAIN variant_to_official :
          LET k == variant_to_official[i].key
          IN  /\ Cardinality(Claimants(k)) >= 2
              /\ variant_to_official[i].val = ground_truth[Max(Claimants(k))].official

WellFormed(gt) == \A n \in DOMAIN gt : gt[n].kind = "list"

\* C9: constructing from a ground truth that is not a mapping of string to
\* list of strings fails with a ConfigurationError and leaves no index.
C9_MalformedGroundTruthRejected ==
    (pc \in {"ready", "failed"} /\ ~WellFormed(ground_truth)) =>
        /\ pc = "failed"
        /\ error = "ConfigurationError"
        /\ variant_to_official = <<>>
        /\ merged_provinces = <<>>

\* C10: once constructed, no step changes ground_truth, variant_to_official
\* or merged_provinces, and every call returns what a matcher freshly built
\* from the ground truth returns for the same arguments, whatever calls were
\* made before.
C10_CallsReadOnly ==
    [][/\ pc = "ready" =>
            /\ ground_truth' = ground_truth
            /\ variant_to_official' = variant_to_official
            /\ merged_provinces' = merged_provinces
       /\ call'.op = "extract_province" =>
            \E fresh \in {BuildIndex(<<>>, ground_truth', 1)} :
            \E r \in {ExtractRightmost(fresh, call'.address)} :
                call'.result = r.result
       /\ call'.op = "compare_provinces" =>
            \E fresh \in {BuildIndex(<<>>, ground_truth', 1)} :
            \E merged \in {BuildMerged(<<>>, fresh, ground_truth', 1)} :
                call'.result = CompareProvincesOf(merged, call'.prov1, call'.prov2)]_vars

\* An extraction that found a province returned, the index as constructed.
C10_Witness ==
    /\ pc = "ready"
    /\ call.op = "extract_province"
    /\ ~call.result.none
    /\ variant_to_official = BuildIndex(<<>>, ground_truth, 1)

\* The address resolves to no province: it is absent or empty, or no index
\* entry matches it.
Unresolved(address) ==
    \/ Falsy(address)
    \/ ~\E i \in DOMAIN variant_to_official :
            KeyMatches(variant_to_official[i].key, address.str)

Officials == {ground_truth[n].official : n \in DOMAIN ground_truth}

\* C11: compare_address_pair returns a record for every pair of addresses;
\* when a side is unresolved the record has match = false, the undetermined
\* reason and "N/A" as that side's province, and a resolved side carries
\* the official name extract_province returns for it.
C11_UnresolvedSideSentinel ==
    call.op = "compare_address_pair" =>
        \E r \in {call.result} :
        \E u1 \in {Unresolved(r.address1)} :
        \E u2 \in {Unresolved(r.address2)} :
            /\ (u1 \/ u2) => (~r.match /\ r.reason.kind = "undetermined")
            /\ u1 => r.province1 = NotAvailable
            /\ u2 => r.province2 = NotAvailable
            /\ ~u1 => /\ r.province1 \in Officials
                      /\ Some(r.province1) =
                            ExtractRightmost(variant_to_official, r.address1).result
            /\ ~u2 => /\ r.province2 \in Officials
                      /\ Some(r.province2) =
                            ExtractRightmost(variant_to_official, r.address2).result

\* One address of the pair resolved and the other did not.
C11_Witness ==
    /\ call.op = "compare_address_pair"
    /\ ~Unresolved(call.result.address1)
    /\ Unresolved(call.result.address2)
    /\ ~Falsy(call.result.address2)
    /\ call.result.province1 \in Officials
    /\ call.result.province2 = NotAvailable
    /\ ~call.result.match

\* The rows the loop of process_csv has read so far.
RowsRead == SubSeq(call.rows, 1, call.next - 1)

\* A row with at least 3 fields whose 4th field, if any, is no excluding label.
KeptAsStated(row) ==
    /\ Len(row) >= 3
    /\ ~(Len(row) > 3 /\ row[4] \in ExcludedLabels)

\* Such a row whose two address fields are not blank.
Kept(row) ==
    /\ KeptAsStated(row)
    /\ Strip(row[2]) # <<>>
    /\ Strip(row[3]) # <<>>

\* C12 as stated: the results are, in input order, one record for every
\* row with at least 3 fields and no excluding label, and none for any
\* other row.
C12_RecordPerRow ==
    call.op \in {"process_csv", "process_csv_returned"} =>
        LET kept == SelectSeq(RowsRead, KeptAsStated)
        IN  /\ Len(call.results) = Len(kept)
            /\ \A k \in DOMAIN kept : call.results[k].index = Strip(kept[k][1])

\* C12 as the code has it: the results are, in input order, one record for
\* every row with at least 3 fields, no excluding label and two non-blank
\* address fields, and none for any other row; the record is that of
\* compare_address_pair on the stripped fields, whatever rows were skipped
\* before, and every row is read before process_csv returns.
C12_RecordPerRowWithAddresses ==
    call.op \in {"process_csv", "process_csv_returned"} =>
        LET kept == SelectSeq(RowsRead, Kept)
        IN  /\ Len(call.results) = Len(kept)
            /\ \A k \in DOMAIN kept :
                  /\ call.results[k].index = Strip(kept[k][1])
                  /\ call.results[k] =
                        [CompareAddressPairOf(variant_to_official, merged_provinces,
                                              Some(Strip(kept[k][2])),
                                              Some(Strip(kept[k][3])), 0)
                            EXCEPT !.index = Strip(kept[k][1])]
            /\ call.op = "process_csv_returned" =>
                  /\ call.next = Len(call.rows) + 1
                  /\ call.output = call.results

\* process_csv returned after a row that was skipped for a blank address
\* and a row that was kept.
C12_Witness ==
    /\ call.op = "process_csv_returned"
    /\ Len(call.rows) = 2
    /\ KeptAsStated(call.rows[1]) /\ ~Kept(call.rows[1])
    /\ Kept(call.rows[2])
    /\ Len(call.results) = 1
    /\ call.results[1].index = Strip(call.rows[2][1])

\* C13: compare_addresses of gradio_app.py reports MATCH exactly when the
\* core comparator built from the same ground truth resolves the two
\* addresses to a match, and it displays the provinces the core resolves.
C13_FormAgreesWithCore ==
    call.op = "compare_addresses" =>
        \E index \in {BuildIndex(<<>>, ground_truth, 1)} :
        \E merged \in {BuildMerged(<<>>, index, ground_truth, 1)} :
        \E core \in {CompareAddressPairOf(index, merged, call.address1,
                                         call.address2, 0)} :
            /\ (call.result.match_status = StatusMatch) <=> core.match
            /\ call.result.prov1_display =
                  (IF core.province1 = NotAvailable THEN NotDetermined
                   ELSE core.province1)
            /\ call.result.prov2_display =
                  (IF core.province2 = NotAvailable THEN NotDetermined
                   ELSE core.province2)

\* C14: the rightmost-match extractor returns the official name of a
\* candidate whose recorded position is greatest among the candidates of the
\* address; among the candidates recorded at that position a boundary match
\* wins over a non-boundary one, and among those of the winner's flag no
\* variant is longer than the winner's.
C14_RightmostPositionWins ==
    (call.op = "extract_province" /\ ~call.result.none) =>
        LET w == call.winner
        IN  /\ call.result = Some(w.official)
            /\ \E i \in DOMAIN call.candidates :
                  /\ call.candidates[i].official = w.official
                  /\ call.candidates[i].variant = w.variant
                  /\ call.candidates[i].position = w.position
            /\ \A i \in DOMAIN call.candidates :
                  LET c == call.candidates[i]
                  IN  /\ c.position <= w.position
                      /\ (c.position = w.position /\ c.is_word_boundary) =>
                            w.is_word_boundary
                      /\ (c.position = w.position
                            /\ c.is_word_boundary = w.is_word_boundary) =>
                            c.length <= w.length

\* A boundary candidate won over a longer non-boundary candidate of another
\* province recorded at the same position.
C14_Witness ==
    /\ call.op = "extract_province"
    /\ ~call.result.none
    /\ \E i \in DOMAIN call.candidates :
          /\ call.candidates[i].position = call.winner.position
          /\ ~call.candidates[i].is_word_boundary
          /\ call.winner.is_word_boundary
          /\ call.candidates[i].length > call.winner.length
          /\ call.candidates[i].official # call.winner.official

\* C15: the position recorded for a boundary candidate is the offset in the
\* case-folded address at which the variant's first character occurs, so
\* that a boundary candidate and a substring candidate whose texts start at
\* one place carry one position.
C15_BoundaryPositionIsVariantStart ==
    (call.op = "extract_province" /\ ~Falsy(call.address)) =>
        LET a == Lower(call.address.str)
            StartsAt(c, p) ==
                /\ p + Len(c.variant) <= Len(a)
                /\ OccursAt(Lower(c.variant), a, p)
        IN  /\ \A i \in DOMAIN call.candidates :
                  call.candidates[i].is_word_boundary =>
                      StartsAt(call.candidates[i], call.candidates[i].position)
            /\ \A i, j \in DOMAIN call.candidates :
                  LET b == call.candidates[i]
                      c == call.candidates[j]
                  IN  (/\ b.is_word_boundary
                       /\ ~c.is_word_boundary
                       /\ StartsAt(c, c.position)
                       /\ StartsAt(b, c.position)
                       /\ ~\E q \in 0..(c.position - 1) : StartsAt(b, q)) =>
                         b.position = c.position

\* The official name and the variants of a ground-truth entry.
StringsOf(e) == {e.official} \cup {Items(e)[i] : i \in DOMAIN Items(e)}

\* No string is claimed by two provinces of the ground truth.
NoSharedString ==
    \A n, m \in DOMAIN ground_truth :
        n # m => StringsOf(ground_truth[n]) \cap StringsOf(ground_truth[m]) = {}

C17_ResultIsOfficialWithEvidence ==
    (call.op = "extract_province" /\ ~call.result.none) =>
        /\ call.result.str \in Officials
        /\ \E i \in DOMAIN variant_to_official :
              /\ variant_to_official[i].val = call.result.str
              /\ Contains(Lower(variant_to_official[i].key), Lower(call.address.str))

\* A province was returned for an address that holds a variant of it and
\* not its official name.
C17_Witness ==
    /\ call.op = "extract_province"
    /\ ~call.result.none
    /\ call.winner.variant # call.result.str
    /\ ~Contains(Lower(call.result.str), Lower(call.address.str))
    /\ call.result.str \in Officials

====
